---- MODULE Spec2Model ----
(***************************************************************************)
(* A model of python_scripts/cassis_process.py: the helpers that drive the *)
(* ISIS3 tools for TGO CaSSIS images.  Strings are TLA+ strings, the file  *)
(* system is the set of existing directories and the content of the        *)
(* existing files, and every function of the script is a small state       *)
(* machine whose steps are its file-system operations and its external     *)
(* tool invocations (os.system, subprocess.Popen).                         *)
(***************************************************************************)
EXTENDS Integers, Sequences, FiniteSets, TLC

VARIABLES
    dirs,     \* the existing directories, each a sequence of path components
    files,    \* the existing regular files: path |-> content
    pc,       \* per run: position in the function being executed
    call,     \* per run: the function being executed and its arguments
    idx,      \* per run: the loop index of the function
    acc,      \* per run: the list the function accumulates
    status,   \* per run: the local variable `status`
    ret,      \* per run: what the last call returned (or that it raised)
    trace,    \* per run: the side effects of the current call, in order
    serial    \* whether the caller serializes the runs

vars == <<dirs, files, pc, call, idx, acc, status, ret, trace, serial>>

-----------------------------------------------------------------------------
(* Bounds and input sets *)

MaxImages == 3
MaxFiles == 2

Runs == {1, 2}
\* exit statuses of the external tools: those of a tool whose status is
\* returned to the caller, and (success or failure) those of a tool whose
\* status is dropped
Statuses == {0, 1, 2}
Dropped == {0, 1}
Paths == {"a.xml", "in/b.cub"}
OutDirs == {"out", "out/deep/er"}
NetOuts == {"all.net", "nets/red/all.net"}
Filters == {"RED", "BLU"}
LogDirs == {"", "nets/red/logs"}
MapFiles == {"", "eq.map", "no.map"}
KeyOutputs == {"10\n", " -5 \n"}

RECURSIVE SeqsUpTo(_, _)
SeqsUpTo(S, n) ==
    IF n = 0 THEN {<<>>}
    ELSE LET shorter == SeqsUpTo(S, n - 1)
         IN  shorter \cup {Append(s, x) : s \in shorter, x \in S}

ImageLists == SeqsUpTo(Paths, MaxImages)
FileLists == SeqsUpTo(Paths, MaxFiles)

-----------------------------------------------------------------------------
(* Python string and os.path helpers *)

Max(S) == CHOOSE m \in S : \A n \in S : n <= m

CharAt(s, i) == SubSeq(s, i, i)

\* str.rfind('/') + 1: the length of the prefix that ends in the last slash
LastSlash(s) ==
    LET I == {i \in 1..Len(s) : CharAt(s, i) = "/"}
    IN  IF I = {} THEN 0 ELSE Max(I)

AllSlashes(s) == \A i \in 1..Len(s) : CharAt(s, i) = "/"

RECURSIVE RStripSlash(_)
RStripSlash(s) ==
    IF s # "" /\ CharAt(s, Len(s)) = "/"
    THEN RStripSlash(SubSeq(s, 1, Len(s) - 1))
    ELSE s

\* os.path.dirname (posixpath)
Dirname(p) ==
    LET head == SubSeq(p, 1, LastSlash(p))
    IN  IF head # "" /\ ~AllSlashes(head) THEN RStripSlash(head) ELSE head

\* os.path.basename (posixpath)
Basename(p) == SubSeq(p, LastSlash(p) + 1, Len(p))

\* os.path.join(a, b) (posixpath)
Join(a, b) ==
    IF b # "" /\ CharAt(b, 1) = "/" THEN b
    ELSE IF a = "" \/ CharAt(a, Len(a)) = "/" THEN a \o b
    ELSE a \o "/" \o b

\* s[:-4]
DropLast4(s) == SubSeq(s, 1, Len(s) - 4)

\* '{}'.format(i) for an int
IntStr(i) == ToString(i)

Whitespace == {" ", "\n", "\t", "\r"}

RECURSIVE LStrip(_)
LStrip(s) ==
    IF s # "" /\ CharAt(s, 1) \in Whitespace
    THEN LStrip(SubSeq(s, 2, Len(s)))
    ELSE s

RECURSIVE RStrip(_)
RStrip(s) ==
    IF s # "" /\ CharAt(s, Len(s)) \in Whitespace
    THEN RStrip(SubSeq(s, 1, Len(s) - 1))
    ELSE s

\* str.strip()
Strip(s) == RStrip(LStrip(s))

\* the components of a path: the non-empty pieces between slashes
RECURSIVE Components(_)
Components(p) ==
    IF p = "" THEN <<>>
    ELSE LET i == LastSlash(p)
             last == SubSeq(p, i + 1, Len(p))
             rest == Components(SubSeq(p, 1, i - 1))
         IN  IF last = "" THEN rest ELSE Append(rest, last)

-----------------------------------------------------------------------------
(* The file system *)

\* os.path.exists, in the file system with directories d and files f
ExistsIn(d, f, p) == p # "" /\ (Components(p) \in d \/ p \in DOMAIN f)
Exists(p) == ExistsIn(dirs, files, p)

\* the directories after os.makedirs(p)
Makedirs(d, p) ==
    LET c == Components(p)
    IN  d \cup {SubSeq(c, 1, k) : k \in 1..Len(c)}

\* the shell's `mkdir p`: only the last component, and only under an existing parent
MkdirOk(d, p) ==
    LET c == Components(p)
    IN  c # <<>> /\ c \notin d /\ SubSeq(c, 1, Len(c) - 1) \in d
Mkdir(d, p) == IF MkdirOk(d, p) THEN d \cup {Components(p)} ELSE d

\* the files after open(p, 'w') ... write(content)
WriteFile(f, p, content) == (p :> content) @@ f

\* a removal that leaves the file in place
RemoveFileKept(f, p) == f

\* the files after os.remove(p)
RemoveFile(f, p) == [q \in (DOMAIN f) \ {p} |-> f[q]]

\* what a tool that is handed the list file p reads: <<>> when p does not exist
Snapshot(p) == IF p \in DOMAIN files THEN <<files[p]>> ELSE <<>>

-----------------------------------------------------------------------------
(* Side effects, as they are recorded in the trace of a call *)

Ev(op, arg, st, out, seen) ==
    [op |-> op, arg |-> arg, st |-> st, out |-> out, seen |-> seen]

SystemEv(cmd, st) == Ev("system", cmd, st, "", <<>>)
BulkEv(cmd, st, list_file) == Ev("system", cmd, st, "", Snapshot(list_file))
PopenEv(cmd, out) == Ev("popen", cmd, 0, out, <<>>)
WriteEv(p, content) == Ev("write", p, 0, content, <<>>)
RemoveEv(p, st) == Ev("remove", p, st, "", <<>>)
MakedirsEv(p) == Ev("makedirs", p, 0, "", <<>>)
PrintEv(msg) == Ev("print", msg, 0, "", <<>>)

-----------------------------------------------------------------------------
(* Calls and results *)

Call(fn, fs, out, dir, filt, pid, map, log) ==
    [fn |-> fn, files |-> fs, out |-> out, dir |-> dir, filt |-> filt,
     pid |-> pid, map |-> map, log |-> log]

NoCall == Call("none", <<>>, "", "", "", "", "", "")

Result(kind, st, paths) == [kind |-> kind, st |-> st, paths |-> paths]
Pending == Result("pending", 0, <<>>)
Void == Result("void", 0, <<>>)
Raised == Result("raised", 0, <<>>)
RetStatus(st) == Result("status", st, <<>>)
RetPaths(ps) == Result("paths", 0, ps)

temp_dir == "cassis_temp"

\* a run may start a call when it is idle and, if the runs are serialized,
\* no other run is inside a call
CanBegin(r) ==
    /\ pc[r] = "idle"
    /\ serial => \A q \in Runs \ {r} : pc[q] \in {"idle", "done"}

-----------------------------------------------------------------------------
(* make_file_list *)

\* a loop that writes the entries without their line ends
RECURSIVE ListContentUnterminated(_)
ListContentUnterminated(fs) ==
    IF fs = <<>> THEN ""
    ELSE Head(fs) \o ListContentUnterminated(Tail(fs))

\* a loop that skips the first entry
RECURSIVE ListContentSkipFirst(_)
ListContentSkipFirst(fs) ==
    IF fs = <<>> THEN ""
    ELSE IF Len(fs) = 1 THEN ""
    ELSE fs[2] \o "\n" \o ListContentSkipFirst(Tail(fs))

\* the text written by the loop `for file in files: f.write('{}\n'.format(file))`
RECURSIVE ListContent(_)
ListContent(fs) ==
    IF fs = <<>> THEN ""
    ELSE Head(fs) \o "\n" \o ListContent(Tail(fs))

\* the directories after make_file_list(fs, list_filename)
ListDirs(d, list_filename) ==
    LET list_dir == Dirname(list_filename)
    IN  IF list_dir # "" /\ ~ExistsIn(d, files, list_dir)
        THEN Makedirs(d, list_dir)
        ELSE d

\* the files after make_file_list(fs, list_filename)
ListFiles(f, fs, list_filename) == WriteFile(f, list_filename, ListContent(fs))

-----------------------------------------------------------------------------
(* How a run moves *)

\* enter function c: its locals are fresh and its trace starts with evs
Enter(r, c, newpc, evs, res) ==
    /\ CanBegin(r)
    /\ call' = [call EXCEPT ![r] = c]
    /\ pc' = [pc EXCEPT ![r] = newpc]
    /\ trace' = [trace EXCEPT ![r] = evs]
    /\ idx' = [idx EXCEPT ![r] = 0]
    /\ acc' = [acc EXCEPT ![r] = <<>>]
    /\ status' = [status EXCEPT ![r] = 0]
    /\ ret' = [ret EXCEPT ![r] = res]
    /\ UNCHANGED serial

\* one more step of the function run r is in
Move(r, newpc, evs, i, a, st, res) ==
    /\ pc' = [pc EXCEPT ![r] = newpc]
    /\ trace' = [trace EXCEPT ![r] = @ \o evs]
    /\ idx' = [idx EXCEPT ![r] = i]
    /\ acc' = [acc EXCEPT ![r] = a]
    /\ status' = [status EXCEPT ![r] = st]
    /\ ret' = [ret EXCEPT ![r] = res]
    /\ UNCHANGED <<call, serial>>

\* the caller takes the result of the call that has ended and goes on
Finish(r) ==
    /\ pc[r] = "done"
    /\ pc' = [pc EXCEPT ![r] = "idle"]
    /\ call' = [call EXCEPT ![r] = NoCall]
    /\ trace' = [trace EXCEPT ![r] = <<>>]
    /\ idx' = [idx EXCEPT ![r] = 0]
    /\ acc' = [acc EXCEPT ![r] = <<>>]
    /\ status' = [status EXCEPT ![r] = 0]
    /\ ret' = [ret EXCEPT ![r] = Void]
    /\ UNCHANGED <<dirs, files, serial>>

\* os.remove(p) as the last statement of a function that then returns res:
\* a missing file raises OSError out of the function
RemoveAndReturn(r, p, res) ==
    IF p \in DOMAIN files
    THEN /\ files' = RemoveFile(files, p)
         /\ Move(r, "done", <<RemoveEv(p, 0)>>, idx[r], acc[r], status[r], res)
    ELSE /\ files' = files
         /\ Move(r, "done", <<RemoveEv(p, 1)>>, idx[r], acc[r], status[r], Raised)

-----------------------------------------------------------------------------
(* ingest_framelet and ingest_observation *)

\* os.path.join(output_dir, basename[:-4] + ".cub")
IngestOutput(filename, output_dir) ==
    Join(output_dir, DropLast4(Basename(filename)) \o ".cub")

IngestCommand(filename, output_filename) ==
    "tgocassis2isis from=" \o filename \o " to=" \o output_filename

SpiceinitCommand(output_filename) ==
    "spiceinit ckpredict=true spkpredict=true from=" \o output_filename

\* `print output_filename` and, when output_dir does not exist,
\* os.system("mkdir {}".format(output_dir)): the shell's exit status is dropped
IngestPrep(d, filename, output_dir) ==
    <<PrintEv(DropLast4(Basename(filename)) \o ".cub")>>
        \o (IF ~ExistsIn(d, files, output_dir)
            THEN <<SystemEv("mkdir " \o output_dir,
                            IF MkdirOk(d, output_dir) THEN 0 ELSE 1)>>
            ELSE <<>>)

\* the directories after that step
IngestPrepDirs(d, output_dir) ==
    IF ~ExistsIn(d, files, output_dir) THEN Mkdir(d, output_dir) ELSE d

IngCall(r) ==
    \E filename \in Paths, output_dir \in OutDirs :
        /\ Enter(r, Call("ingest_framelet", <<filename>>, "", output_dir, "", "", "", ""),
                 "ing_tool", IngestPrep(dirs, filename, output_dir), Pending)
        /\ dirs' = IngestPrepDirs(dirs, output_dir)
        /\ UNCHANGED files

IngTool(r) ==
    /\ pc[r] = "ing_tool"
    /\ \E st \in Dropped :
        Move(r, "ing_spice",
             <<SystemEv(IngestCommand(call[r].files[1],
                                      IngestOutput(call[r].files[1], call[r].dir)), st)>>,
             idx[r], acc[r], status[r], Pending)
    /\ UNCHANGED <<dirs, files>>

IngSpice(r) ==
    /\ pc[r] = "ing_spice"
    /\ \E st \in Dropped :
        LET output_filename == IngestOutput(call[r].files[1], call[r].dir)
        IN  Move(r, "done", <<SystemEv(SpiceinitCommand(output_filename), st)>>,
                 idx[r], acc[r], status[r], Result("path", 0, <<output_filename>>))
    /\ UNCHANGED <<dirs, files>>

\* entry: make the output directory
ObsCall(r, Lists) ==
    \E filenames \in Lists, output_dir \in OutDirs :
        LET mk == ~Exists(output_dir)
        IN  /\ Enter(r, Call("ingest_observation", filenames, "", output_dir,
                             "", "", "", ""),
                     IF filenames # <<>> THEN "obs_ingest" ELSE "done",
                     IF mk THEN <<MakedirsEv(output_dir)>> ELSE <<>>,
                     IF filenames # <<>> THEN Pending ELSE RetPaths(<<>>))
            /\ dirs' = (IF mk THEN Makedirs(dirs, output_dir) ELSE dirs)
            /\ UNCHANGED files

\* ingest_framelet(filename, output_dir), up to and including the ingestion
ObsIngest(r) ==
    /\ pc[r] = "obs_ingest"
    /\ \E st \in Dropped :
        LET filename == call[r].files[idx[r] + 1]
        IN  Move(r, "obs_spice",
                 IngestPrep(dirs, filename, call[r].dir)
                     \o <<SystemEv(IngestCommand(filename,
                                       IngestOutput(filename, call[r].dir)), st)>>,
                 idx[r], acc[r], status[r], Pending)
    /\ dirs' = IngestPrepDirs(dirs, call[r].dir)
    /\ UNCHANGED files

\* the rest of ingest_framelet, and output_filenames.append(output_filename)
ObsSpice(r) ==
    /\ pc[r] = "obs_spice"
    /\ \E st \in Dropped :
        LET filename == call[r].files[idx[r] + 1]
            output_filename == IngestOutput(filename, call[r].dir)
            output_filenames == Append(acc[r], output_filename)
            more == idx[r] + 1 < Len(call[r].files)
        IN  Move(r, IF more THEN "obs_ingest" ELSE "done",
                 <<SystemEv(SpiceinitCommand(output_filename), st)>>,
                 idx[r] + 1, output_filenames, status[r],
                 IF more THEN Pending ELSE RetPaths(output_filenames))
    /\ UNCHANGED <<dirs, files>>

-----------------------------------------------------------------------------
(* match_framelets *)

\* the command line built by match_framelets
MatchCommand(base, train, output_network, network_id, point_id, log) ==
    "findfeatures algorithm=sift/sift"
        \o " match=" \o base
        \o " from=" \o train
        \o " onet=" \o output_network
        \o " networkID=" \o network_id
        \o " pointID=\"" \o point_id \o "\""
        \o (IF log # "" THEN " debug=true debuglog=\"" \o log \o "\"" ELSE "")

\* match_framelets called on its own
MatchCall(r) ==
    \E base \in Paths, train \in Paths, log \in {"", "logs/m.log"} :
        /\ \E st \in Statuses :
            Enter(r, Call("match_framelets", <<base, train>>, "pair.net", "",
                          "pair", "pair????", "", log),
                  "done",
                  <<SystemEv(MatchCommand(base, train, "pair.net", "pair",
                                          "pair????", log), st)>>,
                  RetStatus(st))
        /\ UNCHANGED <<dirs, files>>

-----------------------------------------------------------------------------
(* generate_filter_control *)

\* a loop that stops one pair short
NumPairsShort(images) == IF Len(images) - 2 > 0 THEN Len(images) - 2 ELSE 0

\* range(0, len(images) - 1): the number of pairs
NumPairs(images) == IF Len(images) - 1 > 0 THEN Len(images) - 1 ELSE 0

\* '{}_{}_{}'.format(filter, index, index+1)
NetworkId(filter, index) ==
    filter \o "_" \o IntStr(index) \o "_" \o IntStr(index + 1)

\* a test that takes status 1 for a success
MatchFailedAboveOne(st) == st > 1

\* `if status != 0`
MatchFailed(st) == st # 0

NetsFile == Join(temp_dir, "nets.lis")

MergeCommand(list_file, output_network, filter) ==
    "cnetmerge clist=" \o list_file
        \o " onet=" \o output_network
        \o " network=" \o filter
        \o " description=\"network for the " \o filter \o " filter\""

\* entry: make sure the directories exist
GfcCall(r, Lists, Outs, Fs, Logs) ==
    \E images \in Lists, output_network \in Outs, filter \in Fs,
       log_dir \in Logs :
        LET network_dir == Dirname(output_network)
            mk1 == network_dir # "" /\ ~Exists(network_dir)
            d1 == IF mk1 THEN Makedirs(dirs, network_dir) ELSE dirs
            mk2 == log_dir # "" /\ ~ExistsIn(d1, files, log_dir)
            d2 == IF mk2 THEN Makedirs(d1, log_dir) ELSE d1
            evs == (IF mk1 THEN <<MakedirsEv(network_dir)>> ELSE <<>>)
                   \o (IF mk2 THEN <<MakedirsEv(log_dir)>> ELSE <<>>)
        IN  /\ Enter(r, Call("generate_filter_control", images, output_network,
                             "", filter, "", "", log_dir),
                     IF NumPairs(images) > 0 THEN "gfc_match" ELSE "gfc_list",
                     evs, Pending)
            /\ dirs' = d2
            /\ UNCHANGED files

\* one iteration of the loop over sequential framelets
GfcMatch(r) ==
    /\ pc[r] = "gfc_match"
    /\ \E st \in Statuses :
        LET images == call[r].files
            index == idx[r]
            base == images[index + 1]
            train == images[index + 2]
            network_id == NetworkId(call[r].filt, index)
            network == Join(Dirname(call[r].out), network_id \o ".net")
            point_id == network_id \o "????"
            log == IF call[r].log # ""
                   THEN Join(call[r].log, network_id \o ".log") ELSE ""
            ev == SystemEv(MatchCommand(base, train, network, network_id,
                                        point_id, log), st)
            msg == "Failed to match framelets [" \o base \o "] and ["
                       \o train \o "]"
        IN  IF MatchFailed(st)
            THEN Move(r, "done", <<ev, PrintEv(msg)>>, index, acc[r], st,
                      RetStatus(st))
            ELSE Move(r, IF index + 1 < NumPairs(images) THEN "gfc_match"
                         ELSE "gfc_list",
                      <<ev>>, index + 1, Append(acc[r], network), st, Pending)
    /\ UNCHANGED <<dirs, files>>

\* combine the individual networks: write the list of networks
GfcList(r) ==
    /\ pc[r] = "gfc_list"
    /\ dirs' = ListDirs(dirs, NetsFile)
    /\ files' = ListFiles(files, acc[r], NetsFile)
    /\ Move(r, "gfc_merge", <<WriteEv(NetsFile, ListContent(acc[r]))>>,
            idx[r], acc[r], status[r], Pending)

GfcMerge(r) ==
    /\ pc[r] = "gfc_merge"
    /\ \E st \in Statuses :
        Move(r, "gfc_remove",
             <<BulkEv(MergeCommand(NetsFile, call[r].out, call[r].filt), st,
                      NetsFile)>>,
             idx[r], acc[r], st, Pending)
    /\ UNCHANGED <<dirs, files>>

GfcRemove(r) ==
    /\ pc[r] = "gfc_remove"
    /\ RemoveAndReturn(r, NetsFile, RetStatus(status[r]))
    /\ UNCHANGED dirs

-----------------------------------------------------------------------------
(* make_map_file *)

MosrangeFile == Join(temp_dir, "mosrange.lis")

MapCall(r, Lists, Outs) ==
    \E images \in Lists, output_file \in Outs :
        /\ Enter(r, Call("make_map_file", images, output_file, "", "", "", "", ""),
                 "map_tool",
                 <<WriteEv(MosrangeFile, ListContent(images))>>, Pending)
        /\ dirs' = ListDirs(dirs, MosrangeFile)
        /\ files' = ListFiles(files, images, MosrangeFile)

MapTool(r) ==
    /\ pc[r] = "map_tool"
    /\ \E st \in Dropped :
        Move(r, "map_remove",
             <<BulkEv("mosrange fromlist=" \o MosrangeFile \o " to=" \o call[r].out,
                      st, MosrangeFile)>>,
             idx[r], acc[r], status[r], Pending)
    /\ UNCHANGED <<dirs, files>>

MapRemove(r) ==
    /\ pc[r] = "map_remove"
    /\ RemoveAndReturn(r, MosrangeFile, Void)
    /\ UNCHANGED dirs

-----------------------------------------------------------------------------
(* project_framelet and project_observation; `trim` is not used by either *)

ProjectCommand(image_file, output_file, map_file) ==
    "cam2map from=" \o image_file \o " to=" \o output_file
        \o " map=" \o map_file \o " pixres=map"

\* os.path.join(output_dir, basename[:-4] + "_proj.cub")
ProjectOutput(image, output_dir) ==
    Join(output_dir, DropLast4(Basename(image)) \o "_proj.cub")

ProjCall(r) ==
    \E image_file \in Paths, map_file \in {"eq.map", "no.map"} :
        /\ \E st \in Dropped :
            Enter(r, Call("project_framelet", <<image_file>>, "proj.cub", "", "",
                          "", map_file, ""),
                  "done",
                  <<SystemEv(ProjectCommand(image_file, "proj.cub", map_file), st)>>,
                  Void)
        /\ UNCHANGED <<dirs, files>>

PObsCall(r, Lists) ==
    \E filenames \in Lists, output_dir \in OutDirs :
        LET mk == ~Exists(output_dir)
        IN  /\ Enter(r, Call("project_observation", filenames, "", output_dir,
                             "", "", "eq.map", ""),
                     IF filenames # <<>> THEN "pobs_project" ELSE "done",
                     IF mk THEN <<MakedirsEv(output_dir)>> ELSE <<>>,
                     IF filenames # <<>> THEN Pending ELSE RetPaths(<<>>))
            /\ dirs' = (IF mk THEN Makedirs(dirs, output_dir) ELSE dirs)
            /\ UNCHANGED files

\* one iteration: project_framelet(image, map_file, full_output_file, trim)
PObsProject(r) ==
    /\ pc[r] = "pobs_project"
    /\ \E st \in Dropped :
        LET image == call[r].files[idx[r] + 1]
            full_output_file == ProjectOutput(image, call[r].dir)
            output_files == Append(acc[r], full_output_file)
            more == idx[r] + 1 < Len(call[r].files)
        IN  Move(r, IF more THEN "pobs_project" ELSE "done",
                 <<SystemEv(ProjectCommand(image, full_output_file, call[r].map), st)>>,
                 idx[r] + 1, output_files, status[r],
                 IF more THEN Pending ELSE RetPaths(output_files))
    /\ UNCHANGED <<dirs, files>>

-----------------------------------------------------------------------------
(* mosaic_filter *)

FrameletsFile == Join(temp_dir, "framelets.lis")

\* the keywords queried, in the order of the four Popen calls
Keywords ==
    <<"MinimumLatitude", "MaximumLatitude", "MinimumLongitude", "MaximumLongitude">>

GetkeyCommand(map_file, keyword) ==
    "getkey from=" \o map_file \o " keyword=" \o keyword \o " grpname=Mapping"

\* the format arguments max_lat and min_lon in each other's place
GeoRangeSwapped(min_lat, max_lat, min_lon, max_lon) ==
    " grange=user minlat=" \o Strip(min_lat)
        \o " maxlat=" \o Strip(min_lon)
        \o " minlon=" \o Strip(max_lat)
        \o " maxlon=" \o Strip(max_lon)

\* ' grange=user minlat={} maxlat={} minlon={} maxlon={}'.format(...)
GeoRange(min_lat, max_lat, min_lon, max_lon) ==
    " grange=user minlat=" \o Strip(min_lat)
        \o " maxlat=" \o Strip(max_lat)
        \o " minlon=" \o Strip(min_lon)
        \o " maxlon=" \o Strip(max_lon)

\* an abort path that leaves the list file behind
AbortFilesKept(f, list_file) == f

\* the files after the os.remove of the abort path
AbortFiles(f, list_file) == RemoveFile(f, list_file)

MosCall(r, Lists, Maps) ==
    \E filenames \in Lists, map_file \in Maps :
        /\ Enter(r, Call("mosaic_filter", filenames, "mosaic.cub", "", "", "",
                         map_file, ""),
                 IF map_file # "" THEN "mos_check" ELSE "mos_tool",
                 <<WriteEv(FrameletsFile, ListContent(filenames))>>, Pending)
        /\ dirs' = ListDirs(dirs, FrameletsFile)
        /\ files' = ListFiles(files, filenames, FrameletsFile)

\* `if not os.path.exists(map_file)`: report, remove the list and return
MosCheck(r) ==
    /\ pc[r] = "mos_check"
    /\ LET msg == "Map file [" \o call[r].map \o "] does not exist"
       IN  IF ~Exists(call[r].map)
           THEN IF FrameletsFile \in DOMAIN files
                THEN /\ files' = AbortFiles(files, FrameletsFile)
                     /\ Move(r, "done", <<PrintEv(msg), RemoveEv(FrameletsFile, 0)>>,
                             idx[r], acc[r], status[r], Void)
                ELSE /\ files' = files
                     /\ Move(r, "done", <<PrintEv(msg), RemoveEv(FrameletsFile, 1)>>,
                             idx[r], acc[r], status[r], Raised)
           ELSE /\ files' = files
                /\ Move(r, "mos_key", <<>>, idx[r], acc[r], status[r], Pending)
    /\ UNCHANGED dirs

\* one of the four getkey queries: its standard output is kept
MosKey(r, Outputs) ==
    /\ pc[r] = "mos_key"
    /\ \E out \in Outputs :
        Move(r, IF idx[r] + 1 < Len(Keywords) THEN "mos_key" ELSE "mos_tool",
             <<PopenEv(GetkeyCommand(call[r].map, Keywords[idx[r] + 1]), out)>>,
             idx[r] + 1, Append(acc[r], out), status[r], Pending)
    /\ UNCHANGED <<dirs, files>>

MosTool(r) ==
    /\ pc[r] = "mos_tool"
    /\ \E st \in Dropped :
        LET command == "automos fromlist=" \o FrameletsFile
                           \o " mosaic=" \o call[r].out
                           \o (IF call[r].map # ""
                               THEN GeoRange(acc[r][1], acc[r][2], acc[r][3], acc[r][4])
                               ELSE "")
        IN  Move(r, "mos_remove", <<BulkEv(command, st, FrameletsFile)>>,
                 idx[r], acc[r], status[r], Pending)
    /\ UNCHANGED <<dirs, files>>

MosRemove(r) ==
    /\ pc[r] = "mos_remove"
    /\ RemoveAndReturn(r, FrameletsFile, Void)
    /\ UNCHANGED dirs

-----------------------------------------------------------------------------
(* stack_mosaics *)

MosaicsFile == Join(temp_dir, "mosaics.lis")

StackCall(r, Lists) ==
    \E mosaics \in Lists :
        /\ Enter(r, Call("stack_mosaics", mosaics, "stack.cub", "", "", "", "", ""),
                 "stack_tool",
                 <<WriteEv(MosaicsFile, ListContent(mosaics))>>, Pending)
        /\ dirs' = ListDirs(dirs, MosaicsFile)
        /\ files' = ListFiles(files, mosaics, MosaicsFile)

StackTool(r) ==
    /\ pc[r] = "stack_tool"
    /\ \E st \in Dropped :
        Move(r, "stack_remove",
             <<BulkEv("cubeit fromlist=" \o MosaicsFile \o " to=" \o call[r].out,
                      st, MosaicsFile)>>,
             idx[r], acc[r], status[r], Pending)
    /\ UNCHANGED <<dirs, files>>

StackRemove(r) ==
    /\ pc[r] = "stack_remove"
    /\ RemoveAndReturn(r, MosaicsFile, Void)
    /\ UNCHANGED dirs

-----------------------------------------------------------------------------
(* export_image and export_mosaic *)

\* a return value that tells only success from failure
SystemResultFlag(st) == RetStatus(IF st = 0 THEN 0 ELSE 1)

\* `return os.system(command)`
SystemResult(st) == RetStatus(st)

ExportImageCall(r) ==
    \E image \in Paths :
        /\ \E st \in Statuses :
            Enter(r, Call("export_image", <<image>>, "image.img", "", "", "", "", ""),
                  "done",
                  <<SystemEv("tgocassisrdrgen from=" \o image \o " to=image.img", st)>>,
                  SystemResult(st))
        /\ UNCHANGED <<dirs, files>>

ExportMosaicCall(r) ==
    \E mosaic \in Paths :
        /\ \E st \in Statuses :
            Enter(r, Call("export_mosaic", <<mosaic>>, "mosaic.img", "", "", "", "", ""),
                  "done",
                  <<SystemEv("isis2pds from=" \o mosaic \o " to=mosaic.img"
                                 \o " pdsversion=PDS4", st)>>,
                  SystemResult(st))
        /\ UNCHANGED <<dirs, files>>

-----------------------------------------------------------------------------
(* make_file_list and os.remove called on their own *)

MaxList == 2

\* paths to list; one of them has a newline in it
ListPaths == {"a.cub", "b\nc"}
ListTargets == {"l.lis", "tmp/a/b/l.lis"}
ListInputs == SeqsUpTo(ListPaths, MaxList)

\* make_file_list(fs, list_filename); the write event keeps what the file held
ListWrite(r) ==
    \E fs \in ListInputs, list_filename \in ListTargets :
        /\ Enter(r, Call("make_file_list", fs, list_filename, "", "", "", "", ""),
                 "done",
                 <<Ev("write", list_filename, 0, ListContent(fs),
                      Snapshot(list_filename))>>,
                 Void)
        /\ dirs' = ListDirs(dirs, list_filename)
        /\ files' = ListFiles(files, fs, list_filename)

\* os.remove(list_filename) of a list file that exists
ListRemove(r) ==
    \E list_filename \in ListTargets \cap DOMAIN files :
        /\ Enter(r, Call("os.remove", <<>>, list_filename, "", "", "", "", ""),
                 "done", <<RemoveEv(list_filename, 0)>>, Void)
        /\ files' = RemoveFile(files, list_filename)
        /\ UNCHANGED dirs

-----------------------------------------------------------------------------
(* The environment *)

ListFileNames == {NetsFile, MosrangeFile, FrameletsFile, MosaicsFile}

\* something outside the script (a tool, a user, a cleanup job) removes a
\* list file
EnvRemove ==
    /\ \E p \in ListFileNames \cap DOMAIN files : files' = RemoveFile(files, p)
    /\ UNCHANGED <<dirs, pc, call, idx, acc, status, ret, trace, serial>>

-----------------------------------------------------------------------------
(* Specifications *)

InitFiles == ("eq.map" :> "Group = Mapping\n")

InitRuns ==
    /\ dirs = {<<>>}
    /\ files = InitFiles
    /\ pc = [r \in Runs |-> "idle"]
    /\ call = [r \in Runs |-> NoCall]
    /\ idx = [r \in Runs |-> 0]
    /\ acc = [r \in Runs |-> <<>>]
    /\ status = [r \in Runs |-> 0]
    /\ ret = [r \in Runs |-> Void]
    /\ trace = [r \in Runs |-> <<>>]

Init == InitRuns /\ serial = TRUE

\* one sequential run: any sequence of calls, with any tool statuses
Next ==
    \/ IngCall(1)
    \/ IngTool(1)
    \/ IngSpice(1)
    \/ ObsCall(1, FileLists)
    \/ ObsIngest(1)
    \/ ObsSpice(1)
    \/ MatchCall(1)
    \/ ProjCall(1)
    \/ PObsCall(1, FileLists)
    \/ PObsProject(1)
    \/ ExportImageCall(1)
    \/ ExportMosaicCall(1)
    \/ GfcCall(1, ImageLists, NetOuts, Filters, LogDirs)
    \/ GfcMatch(1)
    \/ GfcList(1)
    \/ GfcMerge(1)
    \/ GfcRemove(1)
    \/ MapCall(1, FileLists, {"eq.map", "new.map"})
    \/ MapTool(1)
    \/ MapRemove(1)
    \/ MosCall(1, FileLists, MapFiles)
    \/ MosCheck(1)
    \/ MosKey(1, KeyOutputs)
    \/ MosTool(1)
    \/ MosRemove(1)
    \/ StackCall(1, FileLists)
    \/ StackTool(1)
    \/ StackRemove(1)
    \/ Finish(1)

Spec == Init /\ [][Next]_vars

\* make_file_list and os.remove alone, on any list and target
NextList ==
    \/ ListWrite(1)
    \/ ListRemove(1)
    \/ Finish(1)

SpecList == Init /\ [][NextList]_vars

\* one sequential run of the functions that use a list file, in an
\* environment that may remove list files
NextFault ==
    \/ GfcCall(1, ImageLists, {"all.net"}, {"RED"}, {""})
    \/ GfcMatch(1)
    \/ GfcList(1)
    \/ GfcMerge(1)
    \/ GfcRemove(1)
    \/ MapCall(1, FileLists, {"new.map"})
    \/ MapTool(1)
    \/ MapRemove(1)
    \/ MosCall(1, FileLists, MapFiles)
    \/ MosCheck(1)
    \/ MosKey(1, {"10\n"})
    \/ MosTool(1)
    \/ MosRemove(1)
    \/ StackCall(1, FileLists)
    \/ StackTool(1)
    \/ StackRemove(1)
    \/ Finish(1)
    \/ EnvRemove

SpecFault == Init /\ [][NextFault]_vars

\* two runs that share the working directory, serialized by their caller or not
MaxConc == 1

\* the lists of the two runs differ in length
ConcLists == SeqsUpTo({"a.xml"}, MaxConc)
ConcImages == SeqsUpTo({"a.xml"}, MaxConc + 1)

InitConc == InitRuns /\ serial \in BOOLEAN

NextConc ==
    \E r \in Runs :
        \/ GfcCall(r, ConcImages, {"all.net"}, {"RED"}, {""})
        \/ GfcMatch(r)
        \/ GfcList(r)
        \/ GfcMerge(r)
        \/ GfcRemove(r)
        \/ MapCall(r, ConcLists, {"new.map"})
        \/ MapTool(r)
        \/ MapRemove(r)
        \/ MosCall(r, ConcLists, MapFiles)
        \/ MosCheck(r)
        \/ MosKey(r, {"10\n"})
        \/ MosTool(r)
        \/ MosRemove(r)
        \/ StackCall(r, ConcLists)
        \/ StackTool(r)
        \/ StackRemove(r)
        \/ Finish(r)

SpecConc == InitConc /\ [][NextConc]_vars

-----------------------------------------------------------------------------
(* Reading a trace and a list file *)

Min(S) == CHOOSE m \in S : \A n \in S : m <= n

HasPrefix(s, pre) == Len(pre) <= Len(s) /\ SubSeq(s, 1, Len(pre)) = pre

HasSuffix(s, suf) ==
    Len(suf) <= Len(s) /\ SubSeq(s, Len(s) - Len(suf) + 1, Len(s)) = suf

Contains(s, sub) ==
    \E i \in 1..(Len(s) - Len(sub) + 1) : SubSeq(s, i, i + Len(sub) - 1) = sub

\* the lines of a text, as reading the file line by line gives them
RECURSIVE Lines(_)
Lines(s) ==
    IF s = "" THEN <<>>
    ELSE LET I == {i \in 1..Len(s) : CharAt(s, i) = "\n"}
         IN  IF I = {} THEN <<s>>
             ELSE <<SubSeq(s, 1, Min(I) - 1)>>
                      \o Lines(SubSeq(s, Min(I) + 1, Len(s)))

\* event e runs the external program `tool` through os.system
Invokes(e, tool) == e.op = "system" /\ HasPrefix(e.arg, tool \o " ")

IsGfc(r) == call[r].fn = "generate_filter_control"
IsMosaic(r) == call[r].fn = "mosaic_filter"

Matches(r) == SelectSeq(trace[r], LAMBDA e : Invokes(e, "findfeatures"))
Queries(r) == SelectSeq(trace[r], LAMBDA e : e.op = "popen")
Tools(r) == SelectSeq(trace[r], LAMBDA e : e.op = "system" /\ ~HasPrefix(e.arg, "mkdir "))
Positions(r, tool) == {k \in 1..Len(trace[r]) : Invokes(trace[r][k], tool)}
Writes(r) == {k \in 1..Len(trace[r]) : trace[r][k].op = "write"}

\* the number of consecutive pairs of a list
PairCount(images) == IF Len(images) > 1 THEN Len(images) - 1 ELSE 0

\* the ID of the pair (i, i+1) of a filter, spelled out
PairId(filter, i) == filter \o "_" \o ToString(i) \o "_" \o ToString(i + 1)

-----------------------------------------------------------------------------
(* What the functions are expected to do, spelled out from their inputs *)

\* the per-pair networks of a generate_filter_control call, in pair order
ExpectedNets(r) ==
    [i \in 1..PairCount(call[r].files) |->
        Join(Dirname(call[r].out), PairId(call[r].filt, i - 1) \o ".net")]

\* the four keyword queries on a map file
ExpectedQueries(map_file) ==
    << "getkey from=" \o map_file \o " keyword=MinimumLatitude grpname=Mapping",
       "getkey from=" \o map_file \o " keyword=MaximumLatitude grpname=Mapping",
       "getkey from=" \o map_file \o " keyword=MinimumLongitude grpname=Mapping",
       "getkey from=" \o map_file \o " keyword=MaximumLongitude grpname=Mapping" >>

\* the cube and the projected cube made from a file, and the two commands of
\* an ingestion
ExpectedCube(filename, output_dir) ==
    output_dir \o "/" \o DropLast4(Basename(filename)) \o ".cub"

ExpectedProjected(image, output_dir) ==
    output_dir \o "/" \o DropLast4(Basename(image)) \o "_proj.cub"

ExpectedIngest(filename, output_dir) ==
    << "tgocassis2isis from=" \o filename \o " to=" \o ExpectedCube(filename, output_dir),
       "spiceinit ckpredict=true spkpredict=true from="
           \o ExpectedCube(filename, output_dir) >>

\* the list file and the bulk-input tool of each function that uses one
ListFileOf(fn) ==
    CASE fn = "generate_filter_control" -> "cassis_temp/nets.lis"
      [] fn = "make_map_file" -> "cassis_temp/mosrange.lis"
      [] fn = "mosaic_filter" -> "cassis_temp/framelets.lis"
      [] fn = "stack_mosaics" -> "cassis_temp/mosaics.lis"

BulkToolOf(fn) ==
    CASE fn = "generate_filter_control" -> "cnetmerge"
      [] fn = "make_map_file" -> "mosrange"
      [] fn = "mosaic_filter" -> "automos"
      [] fn = "stack_mosaics" -> "cubeit"

UsesListFile(r) ==
    call[r].fn \in {"generate_filter_control", "make_map_file", "mosaic_filter",
                    "stack_mosaics"}

\* the sequence the list file of the call is to hold
BulkInput(r) == IF IsGfc(r) THEN ExpectedNets(r) ELSE call[r].files

\* a returned make_file_list call; a list of paths without newlines
IsListWrite(r) == call[r].fn = "make_file_list" /\ pc[r] = "done"

NoNewline(fs) == \A k \in 1..Len(fs) : ~Contains(fs[k], "\n")

\* the call of run r has seen os.remove fail
RemoveFailed(r) ==
    \E k \in 1..Len(trace[r]) : trace[r][k].op = "remove" /\ trace[r][k].st # 0

\* run r started a bulk tool on a list file that did not hold r's paths
Collision(r) ==
    /\ UsesListFile(r)
    /\ \E k \in 1..Len(trace[r]) :
        /\ Invokes(trace[r][k], BulkToolOf(call[r].fn))
        /\ \/ trace[r][k].seen = <<>>
           \/ Lines(trace[r][k].seen[1]) # BulkInput(r)

-----------------------------------------------------------------------------
(* C1: generate_filter_control matches the pairs in index order, pair i on   *)
(* (images[i], images[i+1]) with network ID {filter}_{i}_{i+1} and point ID  *)
(* that ID followed by ????; the first match whose status is not zero ends   *)
(* the call with exactly that status: nothing is matched after it, no list   *)
(* file is written and cnetmerge is not run.                                 *)
C1_FailFastInOrder ==
    \A r \in Runs : IsGfc(r) =>
        LET images == call[r].files
            M == Matches(r)
            tr == trace[r]
        IN  /\ Len(M) <= PairCount(images)
            /\ \A j \in 1..Len(M) :
                LET id == PairId(call[r].filt, j - 1)
                IN  /\ Contains(M[j].arg, " match=" \o images[j] \o " from="
                                              \o images[j + 1] \o " onet=")
                    /\ Contains(M[j].arg, " networkID=" \o id \o " pointID=\""
                                              \o id \o "????\"")
            /\ \A k \in 1..Len(tr) :
                (Invokes(tr[k], "findfeatures") /\ tr[k].st # 0) =>
                    /\ pc[r] = "done"
                    /\ ret[r] = RetStatus(tr[k].st)
                    /\ \A m \in (k + 1)..Len(tr) : tr[m].op = "print"
                    /\ Writes(r) = {}
                    /\ Positions(r, "cnetmerge") = {}
                    /\ \A m \in 1..(k - 1) : Invokes(tr[m], "findfeatures") => tr[m].st = 0

\* three images, the first match fails with status 2: the call has ended
C1_Witness ==
    /\ IsGfc(1) /\ pc[1] = "done"
    /\ Len(call[1].files) = 3
    /\ Len(Matches(1)) = 1
    /\ Matches(1)[1].st = 2
    /\ ret[1] = RetStatus(2)

-----------------------------------------------------------------------------
-----------------------------------------------------------------------------
(* C3: mosaic_filter with a map file that does not exist reports it, issues  *)
(* no getkey query, does not run automos, and its list file does not exist   *)
(* when the call returns.                                                    *)
C3_MissingMapAborts ==
    \A r \in Runs : (IsMosaic(r) /\ call[r].map # "" /\ ~Exists(call[r].map)) =>
        /\ Queries(r) = <<>>
        /\ Tools(r) = <<>>
        /\ pc[r] = "done" =>
            /\ ret[r] = Void
            /\ \E k \in 1..Len(trace[r]) :
                trace[r][k] = PrintEv("Map file [" \o call[r].map \o "] does not exist")
            /\ "cassis_temp/framelets.lis" \notin DOMAIN files

\* the call with the missing map file has returned
C3_Witness ==
    /\ IsMosaic(1) /\ pc[1] = "done"
    /\ call[1].map = "no.map"
    /\ Len(call[1].files) = 2
    /\ ret[1] = Void

-----------------------------------------------------------------------------
(* C4: mosaic_filter with an existing map file issues exactly four getkey    *)
(* queries (MinimumLatitude, MaximumLatitude, MinimumLongitude,              *)
(* MaximumLongitude of group Mapping), all after the list file is written    *)
(* and before the one automos invocation, which carries grange=user and the  *)
(* four values in minlat, maxlat, minlon, maxlon; without a map file there   *)
(* is no query and automos gets no geographic range.                         *)
C4_FourQueriesThenRange ==
    \A r \in Runs : IsMosaic(r) =>
        LET tr == trace[r]
            Q == Queries(r)
            autos == Positions(r, "automos")
            plain == "automos fromlist=cassis_temp/framelets.lis mosaic=" \o call[r].out
        IN  /\ Cardinality(autos) <= 1
            /\ Len(Q) <= 4
            /\ \A j \in 1..Len(Q) : Q[j].arg = ExpectedQueries(call[r].map)[j]
            /\ \A k \in 1..Len(tr) : tr[k].op = "popen" =>
                /\ \E w \in Writes(r) : w < k
                /\ \A a \in autos : k < a
            /\ call[r].map = "" =>
                /\ Q = <<>>
                /\ \A a \in autos : tr[a].arg = plain
            /\ (call[r].map # "" /\ Exists(call[r].map)) =>
                /\ \A a \in autos :
                    /\ Len(Q) = 4
                    /\ tr[a].arg = plain \o " grange=user"
                                         \o " minlat=" \o Strip(Q[1].out)
                                         \o " maxlat=" \o Strip(Q[2].out)
                                         \o " minlon=" \o Strip(Q[3].out)
                                         \o " maxlon=" \o Strip(Q[4].out)
                /\ pc[r] = "done" => (Len(Q) = 4 /\ Cardinality(autos) = 1)

\* a call with the existing map file has returned, the four answers differing
C4_Witness ==
    /\ IsMosaic(1) /\ pc[1] = "done"
    /\ call[1].map = "eq.map"
    /\ Len(Queries(1)) = 4
    /\ Queries(1)[1].out = "10\n" /\ Queries(1)[2].out = " -5 \n"
    /\ Queries(1)[3].out = " -5 \n" /\ Queries(1)[4].out = "10\n"
    /\ \E a \in Positions(1, "automos") :
        HasSuffix(trace[1][a].arg, " grange=user minlat=10 maxlat=-5 minlon=-5 maxlon=10")

-----------------------------------------------------------------------------
(* C5: match_framelets, generate_filter_control, export_image and            *)
(* export_mosaic return exactly the status of the tool they ran; the ingest, *)
(* map, projection, mosaic and stack functions run the same commands and     *)
(* return the same value whatever the tools' statuses are, and               *)
(* ingest_observation ingests every input in order and returns one output    *)
(* path per input, in input order, also after a failed ingestion.            *)
C5_StatusSplit ==
    \A r \in Runs : pc[r] = "done" =>
        LET c == call[r]
            T == Tools(r)
            cmds == [k \in 1..Len(T) |-> T[k].arg]
            n == Len(c.files)
        IN  CASE c.fn \in {"match_framelets", "export_image", "export_mosaic"} ->
                    Len(T) = 1 /\ ret[r] = RetStatus(T[1].st)
              [] c.fn = "generate_filter_control" ->
                    Len(T) >= 1 /\ ret[r] = RetStatus(T[Len(T)].st)
              [] c.fn = "ingest_framelet" ->
                    /\ cmds = ExpectedIngest(c.files[1], c.dir)
                    /\ ret[r] = Result("path", 0, <<ExpectedCube(c.files[1], c.dir)>>)
              [] c.fn = "ingest_observation" ->
                    /\ Len(T) = 2 * n
                    /\ \A k \in 1..n :
                        <<cmds[2 * k - 1], cmds[2 * k]>> = ExpectedIngest(c.files[k], c.dir)
                    /\ ret[r] = RetPaths([k \in 1..n |-> ExpectedCube(c.files[k], c.dir)])
              [] c.fn = "make_map_file" ->
                    /\ cmds = <<"mosrange fromlist=cassis_temp/mosrange.lis to=" \o c.out>>
                    /\ ret[r] = Void
              [] c.fn = "project_framelet" ->
                    /\ cmds = <<"cam2map from=" \o c.files[1] \o " to=" \o c.out
                                    \o " map=" \o c.map \o " pixres=map">>
                    /\ ret[r] = Void
              [] c.fn = "project_observation" ->
                    /\ Len(T) = n
                    /\ \A k \in 1..n :
                        cmds[k] = "cam2map from=" \o c.files[k] \o " to="
                                      \o ExpectedProjected(c.files[k], c.dir)
                                      \o " map=" \o c.map \o " pixres=map"
                    /\ ret[r] = RetPaths([k \in 1..n |-> ExpectedProjected(c.files[k], c.dir)])
              [] c.fn = "mosaic_filter" ->
                    /\ ret[r] = Void
                    /\ Len(T) = (IF c.map # "" /\ ~Exists(c.map) THEN 0 ELSE 1)
                    /\ \A k \in 1..Len(T) :
                        HasPrefix(cmds[k], "automos fromlist=cassis_temp/framelets.lis mosaic="
                                               \o c.out)
              [] c.fn = "stack_mosaics" ->
                    /\ cmds = <<"cubeit fromlist=cassis_temp/mosaics.lis to=" \o c.out>>
                    /\ ret[r] = Void
              [] OTHER -> FALSE

\* two files ingested although both tools failed on the first one
C5_Witness ==
    /\ pc[1] = "done"
    /\ call[1].fn = "ingest_observation"
    /\ call[1].files = <<"in/b.cub", "a.xml">>
    /\ Tools(1)[1].st = 1 /\ Tools(1)[2].st = 1
    /\ ret[1] = RetPaths(<<call[1].dir \o "/b.cub", call[1].dir \o "/a.cub">>)

-----------------------------------------------------------------------------
(* C7: every function that takes an output or log directory creates it when  *)
(* it is absent, also when several levels of its parents are missing, so     *)
(* that the directory exists before the function's first tool invocation.    *)
C7_DirectoryExistsBeforeTools ==
    \A r \in Runs : Tools(r) # <<>> =>
        LET c == call[r]
        IN  CASE c.fn \in {"ingest_framelet", "ingest_observation", "project_observation"} ->
                    Components(c.dir) \in dirs
              [] c.fn = "generate_filter_control" ->
                    /\ Components(Dirname(c.out)) \in dirs
                    /\ Components(c.log) \in dirs
              [] OTHER -> TRUE

-----------------------------------------------------------------------------
-----------------------------------------------------------------------------
(* C6: for every path sequence P and target, make_file_list leaves a file at *)
(* the target whose lines are P exactly (same members, same order, nothing   *)
(* dropped or merged), in place of what the file held, and creates the       *)
(* missing parent directories; reading it back gives P; after os.remove the  *)
(* file does not exist.                                                      *)
\* C6 as it stands, for every sequence of paths: the lines of the file are P
C6_LinesEqualPaths ==
    \A r \in Runs :
        /\ IsListWrite(r) =>
            /\ call[r].out \in DOMAIN files
            /\ Components(Dirname(call[r].out)) \in dirs
            /\ Lines(files[call[r].out]) = call[r].files
        /\ (call[r].fn = "os.remove" /\ pc[r] = "done") =>
            call[r].out \notin DOMAIN files

\* C6 for paths that hold no newline: the file exists under its (created)
\* directory in place of what was there, and its lines are P; a removed list
\* file does not exist
C6_LinesEqualNewlineFreePaths ==
    \A r \in Runs :
        /\ IsListWrite(r) =>
            /\ call[r].out \in DOMAIN files
            /\ Components(Dirname(call[r].out)) \in dirs
            /\ NoNewline(call[r].files) => Lines(files[call[r].out]) = call[r].files
        /\ (call[r].fn = "os.remove" /\ pc[r] = "done") =>
            call[r].out \notin DOMAIN files

\* a list with a repeated path written over another list, three directories deep
C6_Witness ==
    /\ IsListWrite(1)
    /\ call[1].out = "tmp/a/b/l.lis"
    /\ call[1].files = <<"a.cub", "a.cub">>
    /\ trace[1][1].seen = <<"b\nc\n">>
    /\ Lines(files["tmp/a/b/l.lis"]) = <<"a.cub", "a.cub">>

-----------------------------------------------------------------------------
(* C8: in every function that uses a list file, a failure to delete the list *)
(* file is not fatal: the function still completes normally, and             *)
(* generate_filter_control still returns the status of cnetmerge.            *)
C8_RemoveFailureNotFatal ==
    \A r \in Runs : (UsesListFile(r) /\ pc[r] = "done" /\ RemoveFailed(r)) =>
        /\ ret[r].kind # "raised"
        /\ IsGfc(r) => ret[r] = RetStatus(status[r])

-----------------------------------------------------------------------------
(* C9: the four list files of a run have pairwise distinct names; when the   *)
(* runs are serialized, a tool is never started on a list file that holds    *)
(* another run's paths or is gone; two concurrent runs that share the        *)
(* directory can reach such a state.                                         *)
C9_SerializedRunsDoNotCollide ==
    /\ Cardinality({ListFileOf(fn) : fn \in {"generate_filter_control", "make_map_file",
                                             "mosaic_filter", "stack_mosaics"}}) = 4
    /\ {NetsFile, MosrangeFile, FrameletsFile, MosaicsFile}
           = {ListFileOf(fn) : fn \in {"generate_filter_control", "make_map_file",
                                       "mosaic_filter", "stack_mosaics"}}
    /\ serial => \A r \in Runs : ~Collision(r) /\ ret[r].kind # "raised"

\* concurrent runs of stack_mosaics: the tool of run 1 read the list of run 2,
\* and the tool of run 2 found the list file gone
C9_Witness ==
    /\ ~serial
    /\ call[1].fn = "stack_mosaics" /\ call[2].fn = "stack_mosaics"
    /\ call[1].files # call[2].files
    /\ \E k \in Positions(1, "cubeit") :
        /\ trace[1][k].seen # <<>>
        /\ Lines(trace[1][k].seen[1]) = call[2].files
    /\ \E k \in Positions(2, "cubeit") : trace[2][k].seen = <<>>

====
